---- MODULE Spec2Model ----
(***************************************************************************)
(* Collision subsystem of the wormhole multiplayer server                  *)
(* ("Collision Detection.js"): Rectangle, Circle, QuadTree and the static  *)
(* CollisionEngine.                                                        *)
(*                                                                         *)
(* Numbers.  The code computes in IEEE doubles.  Every coordinate of the   *)
(* model is an integer and every region the model subdivides has an even   *)
(* width and height, so x + hw, y + hh are integers; the half extents of   *)
(* Rectangle.intersects (width / 2, height / 2) are compared after         *)
(* multiplying both sides by 2, which is exact on these values.  A field   *)
(* that is undefined in the code is a field the record does not have; a    *)
(* comparison with NaN is false, as in the code.                           *)
(***************************************************************************)
EXTENDS Integers, Sequences, FiniteSets, TLC

VARIABLES
  input,         \* SpecGeom: the arguments drawn for a geometric predicate
  output,        \* SpecGeom: the predicate applied and what it returned
  quadTree,      \* the QuadTree: path of child names -> node
  inserted,      \* insert calls since the last clear: <<[obj, contained, ok]>>
  found,         \* the last retrieve: [query, result]
  USE_QUADTREE,  \* CollisionEngine.USE_QUADTREE
  gameState,     \* match -> the snapshot the match's simulation owns
  hits,          \* onHit invocations made by the last call of the engine
  lastUpdate,    \* match -> the snapshot of its most recent update that ran
  epoch,         \* clears that discarded objects so far: with the position in
                 \* `inserted` it identifies a Circle object (its reference)
  lastOp,        \* the last operation executed, and what it was called with
  sockets,       \* WebSocket id -> its state and the 'close' listeners on it
  spectators,    \* SpectatorManager.spectators: ws.id -> channel
  subscribing,   \* addSpectator calls suspended at await redis.subscribe
  subscribed,    \* the channels the Redis connection is subscribed to
  queues,        \* Redis sorted sets matchmaking:queue:<region>: {[id, score]}
  joinCalls,     \* joinQueue calls in flight: player id -> position and locals
  created,       \* the matches createMatch has stored, in order
  now,           \* Date.now()
  connections,   \* VoiceChatService.connections: matchId -> <<[ws, peer]>>
  peers,         \* the SimplePeer objects made so far: destroyed or not
  users,         \* Redis hashes users:<id>
  authCalls,     \* authenticate calls in flight
  authResults    \* what each finished authenticate call returned or threw

vars == <<input, output, quadTree, inserted, found, USE_QUADTREE, gameState,
          hits, lastUpdate, epoch, lastOp, sockets, spectators, subscribing,
          subscribed, queues, joinCalls, created, now, connections, peers,
          users, authCalls, authResults>>

geomVars == <<input, output>>
treeVars == <<quadTree, inserted, found, epoch>>
engineVars == <<USE_QUADTREE, gameState, hits, lastUpdate>>

collisionVars == <<geomVars, treeVars, engineVars>>
spectatorVars == <<spectators, subscribing, subscribed>>
matchmakerVars == <<queues, joinCalls, created, now>>
voiceVars == <<connections, peers>>
authVars == <<users, authCalls, authResults>>
serviceVars == <<sockets, spectatorVars, matchmakerVars, voiceVars, authVars>>

\* the services of the other files, before anything has called them
IdleServices ==
  /\ sockets = <<>>
  /\ spectators = <<>> /\ subscribing = {} /\ subscribed = {}
  /\ queues = <<>> /\ joinCalls = <<>> /\ created = <<>> /\ now = 0
  /\ connections = <<>> /\ peers = <<>>
  /\ users = <<>> /\ authCalls = <<>> /\ authResults = <<>>

Abs(n) == IF n < 0 THEN -n ELSE n

Has(rec, f) == f \in DOMAIN rec

Range(seq) == { seq[i] : i \in DOMAIN seq }

(***************************************************************************)
(* Geometric primitives                                                    *)
(***************************************************************************)

\* new Rectangle(x, y, w, h)
Rectangle(x, y, w, h) == [x |-> x, y |-> y, width |-> w, height |-> h]

\* new Circle(x, y, r)
Circle(x, y, r) == [x |-> x, y |-> y, radius |-> r]

\* every field of the rectangle is a number (none is undefined)
Defined(rect) == {"x", "y", "width", "height"} \subseteq DOMAIN rect

\* contains with the upper bounds forgotten
containsLowerOnly(rect, circle) ==
  /\ Defined(rect)
  /\ circle.x - circle.radius >= rect.x
  /\ circle.y - circle.radius >= rect.y

\* Rectangle.contains: each conjunct reads one field more of the rectangle, and
\* is false when that field is undefined
contains(rect, circle) ==
  /\ Defined(rect)
  /\ circle.x - circle.radius >= rect.x
  /\ circle.x + circle.radius <= rect.x + rect.width
  /\ circle.y - circle.radius >= rect.y
  /\ circle.y + circle.radius <= rect.y + rect.height

\* the corner comparison of intersects, on doubled lengths
\* dx * dx + dy * dy < r * r, the boundary left out
CornerWithinStrict(dx2, dy2, r2) == dx2 * dx2 + dy2 * dy2 < r2 * r2

\* dx * dx + dy * dy <= r * r
CornerWithin(dx2, dy2, r2) == dx2 * dx2 + dy2 * dy2 <= r2 * r2

\* the first test of intersects taken with >= : a circle touching the region
\* from outside is rejected
BeyondOrTouching(dist2, half2, r2) == dist2 >= half2 + r2

\* xDist > w + r, on doubled lengths
Beyond(dist2, half2, r2) == dist2 > half2 + r2

\* Rectangle.intersects.  xDist2 = 2 * xDist, w2 = 2 * w, r2 = 2 * r.
intersects(rect, circle) ==
  LET xOk == Has(rect, "x") /\ Has(rect, "width")
      yOk == Has(rect, "y") /\ Has(rect, "height")
      r2 == 2 * circle.radius
      xDist2 == Abs(2 * circle.x - (2 * rect.x + rect.width))
      yDist2 == Abs(2 * circle.y - (2 * rect.y + rect.height))
      w2 == rect.width
      h2 == rect.height
  IN  IF (xOk /\ Beyond(xDist2, w2, r2)) \/ (yOk /\ Beyond(yDist2, h2, r2))
        THEN FALSE
      ELSE IF (xOk /\ xDist2 <= w2) \/ (yOk /\ yDist2 <= h2)
        THEN TRUE
      ELSE xOk /\ yOk /\ CornerWithin(xDist2 - w2, yDist2 - h2, r2)

\* a.radius || 2 with || taken as "when absent"
RadiusOrWhenAbsent(c, dflt) == IF Has(c, "radius") THEN c.radius ELSE dflt

\* c.radius || dflt: JavaScript's || yields dflt when the radius is undefined
\* and when it is 0
RadiusOr(c, dflt) ==
  IF Has(c, "radius") /\ c.radius # 0 THEN c.radius ELSE dflt

\* the radius circleCollision falls back to
COLLISION_DEFAULT_RADIUS == 2

\* Math.sqrt(d2) < sum.  For integers d2 >= 0 and sum this is sum > 0 and
\* d2 < sum * sum.
SqrtLess(d2, sum) == sum > 0 /\ d2 < sum * sum

\* CollisionEngine.circleCollision
circleCollision(a, b) ==
  LET dx == a.x - b.x
      dy == a.y - b.y
  IN  SqrtLess(dx * dx + dy * dy,
               RadiusOr(a, COLLISION_DEFAULT_RADIUS)
                 + RadiusOr(b, COLLISION_DEFAULT_RADIUS))

(***************************************************************************)
(* SpecGeom: the predicates applied to arguments drawn from bounded sets   *)
(***************************************************************************)

\* the largest radius of the geometric inputs
GeomMax == 5

GeomRadii == {0, 1, 2, GeomMax}

GeomRects ==
  { Rectangle(x, y, w, h) : x \in {0, 1}, y \in {0}, w \in {0, 3, 4}, h \in {0, 2} }

GeomCircles ==
  { Circle(x, y, r) : x \in (1 - GeomMax)..(GeomMax + 4),
                      y \in (1 - GeomMax)..(GeomMax + 2), r \in GeomRadii }

\* circles as circleCollision receives them: the radius may be absent
PairCircles ==
  { Circle(x, y, r) : x \in 0..GeomMax, y \in {0, 1}, r \in {0, 1, 3} }
    \cup { [x |-> x, y |-> y] : x \in 0..GeomMax, y \in {0, 1} }

NoInput == [kind |-> "none"]

\* output: predicate name -> the value it returned, for the predicates applied
NoOutput == <<>>

Applied(op) == op \in DOMAIN output

IdleGeom == input = NoInput /\ output = NoOutput

IdleEngine ==
  USE_QUADTREE = TRUE /\ gameState = <<>> /\ hits = <<>> /\ lastUpdate = <<>>

InitGeom ==
  /\ input \in [kind : {"rectCircle"}, rect : GeomRects, circle : GeomCircles]
                 \cup [kind : {"circles"}, a : PairCircles, b : PairCircles]
  /\ output = NoOutput
  /\ quadTree = <<>> /\ inserted = <<>> /\ found = <<>> /\ epoch = 0
  /\ IdleEngine
  /\ IdleServices
  /\ lastOp = [op |-> "init"]

ApplyContains ==
  /\ input.kind = "rectCircle"
  /\ ~Applied("contains")
  /\ output' = output @@ [op \in {"contains"} |-> contains(input.rect, input.circle)]
  /\ UNCHANGED <<input, treeVars, engineVars, lastOp, serviceVars>>

ApplyIntersects ==
  /\ input.kind = "rectCircle"
  /\ ~Applied("intersects")
  /\ output' = output @@ [op \in {"intersects"} |-> intersects(input.rect, input.circle)]
  /\ UNCHANGED <<input, treeVars, engineVars, lastOp, serviceVars>>

ApplyCircleCollision ==
  /\ input.kind = "circles"
  /\ ~Applied("circleCollision")
  /\ output' = [op \in {"circleCollision"} |-> circleCollision(input.a, input.b)]
  /\ UNCHANGED <<input, treeVars, engineVars, lastOp, serviceVars>>

(***************************************************************************)
(* QuadTree.  The tree is a function from paths to nodes: <<>> is the      *)
(* root, Append(p, "northeast") the node this.northeast of node p.  A path *)
(* stays in the domain for as long as the parent's property refers to the  *)
(* child object, also after clear() has reset the parent's divided flag.   *)
(***************************************************************************)

Root == <<>>

\* the order insert tries the children in, and retrieve visits them in
ChildNames == <<"northeast", "northwest", "southeast", "southwest">>

Child(p, i) == Append(p, ChildNames[i])

\* new QuadTree(boundary, capacity)
QuadTree(boundary, capacity) ==
  [boundary |-> boundary, capacity |-> capacity, objects |-> <<>>, divided |-> FALSE]

\* q is a proper descendant path of p
Below(p, q) == Len(q) > Len(p) /\ SubSeq(q, 1, Len(p)) = p

\* the nodes a traversal from the root reaches: the root, and the children of
\* every reachable node whose divided flag is set
Live(t) == { q \in DOMAIN t : \A k \in 0..(Len(q) - 1) : t[SubSeq(q, 1, k)].divided }

\* the objects stored in the nodes of a set
ObjectsOf(t, nodes) ==
  UNION { { t[q].objects[i] : i \in 1..Len(t[q].objects) } : q \in nodes }

Stored(t) == ObjectsOf(t, Live(t))

\* the four quadrants of subdivide, by child name
Quadrant(b, name) ==
  LET hw == b.width \div 2
      hh == b.height \div 2
  IN  CASE name = "northeast" -> Rectangle(b.x + hw, b.y, hw, hh)
        [] name = "northwest" -> Rectangle(b.x, b.y, hw, hh)
        [] name = "southeast" -> Rectangle(b.x + hw, b.y + hh, hw, hh)
        [] name = "southwest" -> Rectangle(b.x, b.y + hh, hw, hh)

\* subdivide that also empties the node it divides
subdivideDroppingObjects(t, p) ==
  LET kids == { Child(p, i) : i \in 1..4 }
      kept == { q \in DOMAIN t : ~Below(p, q) }
  IN  [q \in kept \cup kids |->
         IF q \in kids
           THEN QuadTree(Quadrant(t[p].boundary, q[Len(q)]), t[p].capacity)
         ELSE IF q = p THEN [t[p] EXCEPT !.divided = TRUE, !.objects = <<>>]
         ELSE t[q]]

\* QuadTree.subdivide on node p: four new leaves replace whatever the four
\* properties referred to
subdivide(t, p) ==
  LET kids == { Child(p, i) : i \in 1..4 }
      kept == { q \in DOMAIN t : ~Below(p, q) }
  IN  [q \in kept \cup kids |->
         IF q \in kids
           THEN QuadTree(Quadrant(t[p].boundary, q[Len(q)]), t[p].capacity)
         ELSE IF q = p THEN [t[p] EXCEPT !.divided = TRUE]
         ELSE t[q]]

\* the capacity test of insert failing on every node whose region starts at
\* the origin, full or not: such a node passes every entity on to its children
HasRoomAwayFromOrigin(node) ==
  /\ Len(node.objects) < node.capacity
  /\ (node.boundary.x # 0 \/ node.boundary.y # 0)

\* the capacity test of insert taken with <=
HasRoomInclusive(node) == Len(node.objects) <= node.capacity

\* this.objects.length < this.capacity
HasRoom(node) == Len(node.objects) < node.capacity

\* the four child inserts joined without short-circuit: every child is tried
AllTried(ne, nw, se, sw) ==
  [tree |-> sw.tree, ok |-> ne.ok \/ nw.ok \/ se.ok \/ sw.ok]

\* a || b || c || d on the four child inserts: the first that returns true ends
\* the expression, and the children after it are not called
FirstAccepting(ne, nw, se, sw) ==
  IF ne.ok THEN ne ELSE IF nw.ok THEN nw ELSE IF se.ok THEN se ELSE sw

\* QuadTree.insert on node p: the tree after the call and the value returned.
\* A child's insert runs only when the children before it returned false.
RECURSIVE insert(_, _, _)
insert(t, p, obj) ==
  IF ~contains(t[p].boundary, obj) THEN [tree |-> t, ok |-> FALSE]
  ELSE IF HasRoom(t[p])
    THEN [tree |-> [t EXCEPT ![p].objects = Append(@, obj)], ok |-> TRUE]
  ELSE LET t0 == IF ~t[p].divided THEN subdivide(t, p) ELSE t
           ne == insert(t0, Child(p, 1), obj)
           nw == insert(ne.tree, Child(p, 2), obj)
           se == insert(nw.tree, Child(p, 3), obj)
           sw == insert(se.tree, Child(p, 4), obj)
       IN  FirstAccepting(ne, nw, se, sw)

\* clear() leaving the divided flag as it is
ResetDividedForgotten(node) == node

\* this.divided = false
ResetDivided(node) == [node EXCEPT !.divided = FALSE]

\* clear() leaving the node's objects where they are
ObjectsKept(node) == node

\* this.objects = []
EmptyObjects(node) == [node EXCEPT !.objects = <<>>]

\* QuadTree.clear on node p
RECURSIVE clear(_, _)
clear(t, p) ==
  LET t0 == [t EXCEPT ![p] = EmptyObjects(@)]
  IN  IF t0[p].divided
        THEN LET t4 == clear(clear(clear(clear(t0, Child(p, 1)), Child(p, 2)),
                                   Child(p, 3)), Child(p, 4))
             IN  [t4 EXCEPT ![p] = ResetDivided(@)]
        ELSE t0

\* retrieve leaving out the last child
VisitedButLast == Len(ChildNames) - 1

\* the children retrieve recurses into: all four
Visited == Len(ChildNames)

\* QuadTree.retrieve on node p with the accumulator acc
RECURSIVE retrieve(_, _, _, _)
RECURSIVE retrieveChildren(_, _, _, _, _)
retrieve(t, p, circle, acc) ==
  IF ~intersects(t[p].boundary, circle) THEN acc
  ELSE LET here == acc \o t[p].objects
       IN  IF t[p].divided THEN retrieveChildren(t, p, circle, here, 1) ELSE here

\* the four recursive calls of retrieve, from child i on
retrieveChildren(t, p, circle, acc, i) ==
  IF i > Visited THEN acc
  ELSE retrieveChildren(t, p, circle, retrieve(t, Child(p, i), circle, acc), i + 1)

(***************************************************************************)
(* SpecTree: one QuadTree under insert, clear and retrieve                 *)
(***************************************************************************)

\* inserts between two clears
MaxInserts == 4

\* clears that discard objects
MaxEpochs == 1

\* side of the square region of the tree: a power of two that every
\* subdivision the inserts can cause halves exactly
TreeSize == 2 ^ (MaxInserts + 1)

TreeCapacities == {1, 2}

TreeBoundary == Rectangle(0, 0, TreeSize, TreeSize)

\* the collidables offered to insert
TreeObjects ==
  LET s == TreeSize
  IN  { Circle(s \div 4, s \div 4, 0),          \* a point inside the NW quadrant
        Circle(s \div 2, s \div 2, 0),          \* a point on both midlines
        Circle(s \div 2, s \div 4, 1),          \* across the vertical midline
        Circle(s \div 4, 3 * (s \div 4), 2),    \* inside the SW quadrant
        Circle(0, 0, 1) }                       \* across the region's corner

\* the probes offered to retrieve; the first covers the whole region
CoveringQuery == Circle(TreeSize \div 2, TreeSize \div 2, TreeSize)

TreeQueries ==
  LET s == TreeSize
  IN  { CoveringQuery,
        Circle(s \div 4, s \div 4, 1),              \* over the NW point
        Circle(s \div 2 + 1, s \div 4, 1),          \* over the midline circle
        Circle(s \div 4 + 2, 3 * (s \div 4), 1),    \* over the SW circle
        Circle(s + 1, s + 1, 1) }                    \* off the region's corner

NoFound == [query |-> Circle(0, 0, 0), result |-> <<>>, valid |-> FALSE]

\* a Circle object: the value and the reference that tells it from an equal one
\* (ref: the epoch it was made in, what it was made for, its index there)
Obj(circle, e, kind, n) ==
  [x |-> circle.x, y |-> circle.y, radius |-> circle.radius,
   ref |-> [epoch |-> e, kind |-> kind, n |-> n]]

InitTree ==
  /\ \E cap \in TreeCapacities :
       quadTree = [p \in {Root} |-> QuadTree(TreeBoundary, cap)]
  /\ inserted = <<>>
  /\ found = NoFound
  /\ epoch = 0
  /\ lastOp = [op |-> "init"]
  /\ IdleGeom
  /\ IdleEngine
  /\ IdleServices

Insert(circle) ==
  /\ Len(inserted) < MaxInserts
  /\ LET obj == Obj(circle, epoch, "object", Len(inserted) + 1)
         r == insert(quadTree, Root, obj)
     IN  /\ quadTree' = r.tree
         /\ inserted' = Append(inserted,
              [obj |-> obj, contained |-> contains(quadTree[Root].boundary, obj),
               ok |-> r.ok])
  /\ found' = NoFound
  /\ lastOp' = [op |-> "insert"]
  /\ UNCHANGED <<epoch, geomVars, engineVars, serviceVars>>

Clear ==
  /\ inserted = <<>> \/ epoch < MaxEpochs
  /\ quadTree' = clear(quadTree, Root)
  /\ epoch' = IF inserted = <<>> THEN epoch ELSE epoch + 1
  /\ inserted' = <<>>
  /\ found' = NoFound
  /\ lastOp' = [op |-> "clear", again |-> lastOp.op = "clear",
                 divided |-> quadTree[Root].divided,
                 below |-> Cardinality(ObjectsOf(quadTree, Live(quadTree) \ {Root}))]
  /\ UNCHANGED <<geomVars, engineVars, serviceVars>>

Retrieve(query) ==
  /\ found' = [query |-> query, result |-> retrieve(quadTree, Root, query, <<>>),
               valid |-> TRUE]
  /\ lastOp' = [op |-> "retrieve"]
  /\ UNCHANGED <<quadTree, inserted, epoch, geomVars, engineVars, serviceVars>>


NextGeom == ApplyContains \/ ApplyIntersects \/ ApplyCircleCollision

SpecGeom == InitGeom /\ [][NextGeom]_vars

NextTree ==
  \/ \E circle \in TreeObjects : Insert(circle)
  \/ Clear
  \/ \E query \in TreeQueries : Retrieve(query)

SpecTree == InitTree /\ [][NextTree]_vars

(***************************************************************************)
(* CollisionEngine.  quadTree is the one static tree of the class.         *)
(***************************************************************************)

\* COLLISION_WORLD_BOUNDS as the file sets it: y, width and height undefined
COLLISION_WORLD_BOUNDS == [x |-> 0]

QUADTREE_CAPACITY == 4

\* the radius update gives a player that has none
PLAYER_DEFAULT_RADIUS == 12

\* the radius update and checkCollisions give a projectile
PROJECTILE_RADIUS == 2

\* new Rectangle(b.x, b.y, b.width, b.height): an undefined argument leaves the
\* field undefined
RectangleOf(b) == [f \in DOMAIN b \cap {"x", "y", "width", "height"} |-> b[f]]

\* the Circles update makes for the players, in order
PlayerCircles(gs, e) ==
  [i \in 1..Len(gs.players) |->
     Obj(Circle(gs.players[i].x, gs.players[i].y,
                RadiusOr(gs.players[i], PLAYER_DEFAULT_RADIUS)), e, "player", i)]

\* the Circles update makes for the projectiles, in order
ProjectileCircles(gs, e) ==
  [j \in 1..Len(gs.projectiles) |->
     Obj(Circle(gs.projectiles[j].x, gs.projectiles[j].y, PROJECTILE_RADIUS),
         e, "projectile", j)]

\* forEach(obj => quadTree.insert(obj)): the tree after, and each call's result
RECURSIVE insertAll(_, _, _)
insertAll(t, objs, log) ==
  IF objs = <<>> THEN [tree |-> t, log |-> log]
  ELSE LET r == insert(t, Root, Head(objs))
       IN  insertAll(r.tree, Tail(objs),
             Append(log, [obj |-> Head(objs),
                          contained |-> contains(t[Root].boundary, Head(objs)),
                          ok |-> r.ok]))

\* update that does not clear the tree first
clearSkipped(t) == t

\* this.quadTree.clear()
clearTree(t) == clear(t, Root)

\* the body of update past its guard: the tree after, and the inserts made
update(t, gs, e) ==
  insertAll(clearTree(t), PlayerCircles(gs, e) \o ProjectileCircles(gs, e), <<>>)

RemoveAt(seq, i) == SubSeq(seq, 1, i - 1) \o SubSeq(seq, i + 1, Len(seq))

\* what the caller's onHit does besides being called
Callbacks == {"record", "removeProjectile"}

\* candidates.forEach of checkCollisions for the projectile now at index i,
\* from candidate k on.  ps: the projectiles array; at: for each element its
\* index in the array as checkCollisions received it; here: whether the
\* projectile is still in the array.
RECURSIVE eachCandidate(_, _, _, _, _, _, _, _)
eachCandidate(projectile, candidates, k, ps, at, i, here, st) ==
  IF k > Len(candidates) THEN [ps |-> ps, at |-> at, hits |-> st.hits]
  ELSE IF circleCollision(projectile, candidates[k])
    THEN LET hit == [projectile |-> projectile, index |-> st.index,
                     target |-> candidates[k]]
             gone == here /\ st.cb = "removeProjectile"
         IN  eachCandidate(projectile, candidates, k + 1,
               IF gone THEN RemoveAt(ps, i) ELSE ps,
               IF gone THEN RemoveAt(at, i) ELSE at,
               i, here /\ ~gone,
               [st EXCEPT !.hits = Append(@, hit)])
  ELSE eachCandidate(projectile, candidates, k + 1, ps, at, i, here, st)

\* gameState.projectiles.forEach of checkCollisions, from index i on: forEach
\* visits index i while the array still has it
RECURSIVE eachProjectile(_, _, _, _, _, _, _)
eachProjectile(t, ps, at, i, cb, hitsSoFar, probed) ==
  IF i > Len(ps) THEN [projectiles |-> ps, hits |-> hitsSoFar, probed |-> probed]
  ELSE LET projectile == ps[i]
           candidates ==
             retrieve(t, Root, Circle(projectile.x, projectile.y, PROJECTILE_RADIUS),
                      <<>>)
           r == eachCandidate(projectile, candidates, 1, ps, at, i, TRUE,
                              [cb |-> cb, index |-> at[i], hits |-> hitsSoFar])
       IN  eachProjectile(t, r.ps, r.at, i + 1, cb, r.hits, Append(probed, at[i]))

\* the body of checkCollisions past its guard
checkCollisions(t, gs, cb) ==
  eachProjectile(t, gs.projectiles, [j \in 1..Len(gs.projectiles) |-> j], 1, cb,
                 <<>>, <<>>)

(***************************************************************************)
(* Spec: one match driving the engine                                      *)
(***************************************************************************)

\* players of any kind in a snapshot, after the crowd
MaxPlayers == 2

MaxProjectiles == 2

\* rebuilds of the tree by update
MaxRebuilds == 2

\* a world the tweakable bounds can be set to: the one of the end-to-end
\* scenario
ScenarioBounds == [x |-> 0, y |-> 0, width |-> 1000, height |-> 1000]

WorldBounds == {COLLISION_WORLD_BOUNDS, ScenarioBounds}

PlayerChoices ==
  { [x |-> 250, y |-> 250],                 \* no radius of its own
    [x |-> 500, y |-> 250, radius |-> 20],  \* its own radius, on the midline
    [x |-> 269, y |-> 250, radius |-> 0] }  \* a radius of 0

ProjectileChoices ==
  { [x |-> 260, y |-> 250],   \* 10 from the first player, 9 from the third
    [x |-> 264, y |-> 250],   \* 14 = 2 + 12 from the first player, 5 from the third
    [x |-> 510, y |-> 250] }  \* 10 from the midline player

SeqsUpTo(S, n) == UNION { [1..k -> S] : k \in 0..n }

\* the players that stand at one spot before the others join: none, or as many
\* as fill the root node but one, so that the players after them reach the
\* root's last place and its children
CrowdSizes == {0, QUADTREE_CAPACITY - 1}

Crowd(k) == [i \in 1..k |-> [x |-> 250, y |-> 250]]

Snapshots ==
  [players : { Crowd(k) \o s : k \in CrowdSizes, s \in SeqsUpTo(PlayerChoices, MaxPlayers) },
   projectiles : SeqsUpTo(ProjectileChoices, MaxProjectiles)]

Matches == {1}

Init ==
  /\ \E b \in WorldBounds :
       quadTree = [p \in {Root} |-> QuadTree(RectangleOf(b), QUADTREE_CAPACITY)]
  /\ USE_QUADTREE = TRUE
  /\ gameState \in [Matches -> Snapshots]
  /\ hits = <<>>
  /\ lastUpdate = <<>>
  /\ inserted = <<>>
  /\ found = NoFound
  /\ epoch = 0
  /\ lastOp = [op |-> "init"]
  /\ IdleGeom
  /\ IdleServices

\* the guard of update and checkCollisions never taken
DisabledNever == FALSE

\* if (!this.USE_QUADTREE) return
Disabled == ~USE_QUADTREE

\* the index holds what update made of the snapshot gs
Indexed(gs) ==
  /\ epoch >= 1
  /\ [k \in DOMAIN inserted |-> inserted[k].obj]
       = PlayerCircles(gs, epoch) \o ProjectileCircles(gs, epoch)

\* the live-tuning switch
SetUseQuadTree(b) ==
  /\ USE_QUADTREE # b
  /\ USE_QUADTREE' = b
  /\ lastOp' = [op |-> "setUseQuadTree"]
  /\ UNCHANGED <<quadTree, inserted, found, epoch, gameState, hits, lastUpdate,
                 geomVars, serviceVars>>

\* CollisionEngine.update(gameState) called for match m
Update(m) ==
  /\ lastOp' = [op |-> "update", m |-> m, enabled |-> USE_QUADTREE,
                 discarded |-> Cardinality(Stored(quadTree))]
  /\ IF Disabled
       THEN UNCHANGED <<quadTree, inserted, epoch, lastUpdate>>
       ELSE /\ epoch < MaxRebuilds
            /\ epoch' = epoch + 1
            /\ lastUpdate' = [n \in DOMAIN lastUpdate \cup {m} |->
                                IF n = m THEN gameState[m] ELSE lastUpdate[n]]
            /\ LET r == update(quadTree, gameState[m], epoch + 1)
               IN  quadTree' = r.tree /\ inserted' = r.log
  /\ hits' = <<>>
  /\ UNCHANGED <<found, USE_QUADTREE, gameState, geomVars, serviceVars>>

\* CollisionEngine.checkCollisions(gameState, onHit) called for match m
CheckCollisions(m, cb) ==
  /\ IF Disabled
       THEN /\ hits' = <<>>
            /\ UNCHANGED gameState
            /\ lastOp' = [op |-> "checkCollisions", m |-> m, enabled |-> USE_QUADTREE]
       ELSE LET r == checkCollisions(quadTree, gameState[m], cb)
            IN  /\ hits' = r.hits
                /\ gameState' = [gameState EXCEPT ![m].projectiles = r.projectiles]
                /\ lastOp' = [op |-> "checkCollisions", m |-> m,
                              enabled |-> USE_QUADTREE, cb |-> cb,
                              probed |-> r.probed, snapshot |-> gameState[m]]
  /\ UNCHANGED <<quadTree, inserted, found, epoch, USE_QUADTREE, lastUpdate,
                 geomVars, serviceVars>>

Next ==
  \/ \E b \in BOOLEAN : SetUseQuadTree(b)
  \/ \E m \in Matches : Update(m)
  \/ \E m \in Matches, cb \in Callbacks : CheckCollisions(m, cb)

Spec == Init /\ [][Next]_vars

(***************************************************************************)
(* SpecMatches: two matches of one server process calling the engine, each *)
(* with its own snapshot.  The calls are synchronous, so they interleave   *)
(* call by call.                                                           *)
(***************************************************************************)

ConcurrentMatches == {1, 2}

\* the snapshots of the two matches: at most one player and one projectile
MatchSnapshots ==
  [players : SeqsUpTo(PlayerChoices, 1), projectiles : SeqsUpTo(ProjectileChoices, 1)]

InitMatches ==
  /\ quadTree = [p \in {Root} |-> QuadTree(RectangleOf(ScenarioBounds), QUADTREE_CAPACITY)]
  /\ USE_QUADTREE = TRUE
  /\ gameState \in [ConcurrentMatches -> MatchSnapshots]
  /\ hits = <<>>
  /\ lastUpdate = <<>>
  /\ inserted = <<>>
  /\ found = NoFound
  /\ epoch = 0
  /\ lastOp = [op |-> "init"]
  /\ IdleGeom
  /\ IdleServices

NextMatches ==
  \/ \E m \in ConcurrentMatches : Update(m)
  \/ \E m \in ConcurrentMatches, cb \in Callbacks : CheckCollisions(m, cb)

SpecMatches == InitMatches /\ [][NextMatches]_vars


(***************************************************************************)
(* WebSockets ("spectator_Mode.js", "voiceChatSystem.js").  A socket is    *)
(* open until ws.close() is called on it or its peer leaves; the 'close'   *)
(* event then runs the listeners registered on it, once.                   *)
(***************************************************************************)

MatchIds == {"A", "B"}

\* `match:${matchId}:spectate`: one channel name per match id
Channel(matchId) == <<"match", matchId, "spectate">>

Socket(listeners) == [state |-> "open", listeners |-> listeners]

\* ws.on('close', ...) of addSpectator
SpectatorListener(channel) == [kind |-> "spectator", channel |-> channel]

\* ws.on('close', ...) of handleOffer
VoiceListener(matchId, peer) == [kind |-> "voice", matchId |-> matchId, peer |-> peer]

ListenersOf(ws, kind) ==
  { l \in Range(sockets[ws].listeners) : l.kind = kind }

\* list.filter(conn => conn.ws !== ws)
WithoutSocket(list, ws) ==
  LET F[i \in 0..Len(list)] ==
        IF i = 0 THEN <<>>
        ELSE IF list[i].ws # ws THEN Append(F[i - 1], list[i]) ELSE F[i - 1]
  IN  F[Len(list)]

\* the 'close' event of socket ws: every listener registered on it runs
Close(ws) ==
  /\ sockets[ws].state # "closed"
  /\ sockets' = [sockets EXCEPT ![ws].state = "closed"]
  /\ LET gone == ListenersOf(ws, "spectator")
     IN  /\ subscribed' = subscribed \ { l.channel : l \in gone }
         /\ spectators' = IF gone = {} THEN spectators
                          ELSE [id \in DOMAIN spectators \ {ws} |-> spectators[id]]
  /\ LET gone == ListenersOf(ws, "voice")
         ms == { l.matchId : l \in gone }
     IN  /\ connections' =
              [m \in DOMAIN connections \cup ms |->
                 IF m \in ms
                   THEN WithoutSocket(
                          IF m \in DOMAIN connections THEN connections[m] ELSE <<>>, ws)
                   ELSE connections[m]]
         /\ peers' = [i \in DOMAIN peers |->
                        peers[i] \/ \E l \in gone : l.peer = i]
  /\ lastOp' = [op |-> "close", ws |-> ws]
  /\ UNCHANGED <<subscribing, collisionVars, matchmakerVars, authVars>>

(***************************************************************************)
(* SpecSpectators: SpectatorManager under addSpectator calls and closes    *)
(***************************************************************************)

MAX_SPECTATORS_PER_MATCH == 40

\* sockets that ask to spectate while the model runs
MaxWatchers == 2

\* addSpectator calls one socket makes
MaxRequests == 2

\* spectators of match "A" registered before the model starts, with ids 1..k
SeatedSizes == {MAX_SPECTATORS_PER_MATCH - 2, MAX_SPECTATORS_PER_MATCH - 1}

Watchers == (MAX_SPECTATORS_PER_MATCH + 1)..(MAX_SPECTATORS_PER_MATCH + MaxWatchers)

\* curSpectators.length for the channel
SpectatorCount(channel) ==
  Cardinality({ id \in DOMAIN spectators : spectators[id] = channel })

InitSpectators ==
  /\ \E k \in SeatedSizes :
       /\ spectators = [id \in 1..k |-> Channel("A")]
       /\ sockets = [id \in (1..k) \cup Watchers |->
                       IF id <= k THEN Socket(<<SpectatorListener(Channel("A"))>>)
                       ELSE Socket(<<>>)]
  /\ subscribing = {}
  /\ subscribed = {Channel("A")}
  /\ queues = <<>> /\ joinCalls = <<>> /\ created = <<>> /\ now = 0
  /\ connections = <<>> /\ peers = <<>>
  /\ users = <<>> /\ authCalls = <<>> /\ authResults = <<>>
  /\ quadTree = <<>> /\ inserted = <<>> /\ found = <<>> /\ epoch = 0
  /\ IdleGeom
  /\ IdleEngine
  /\ lastOp = [op |-> "init"]

\* addSpectator(matchId, ws) up to its await, or to its return when denied
AddSpectator(matchId, ws) ==
  LET channel == Channel(matchId)
      call == [ws |-> ws, channel |-> channel]
      count == SpectatorCount(channel)
  IN  /\ sockets[ws].state = "open"
      /\ call \notin subscribing
      /\ Len(sockets[ws].listeners)
           + Cardinality({ c \in subscribing : c.ws = ws }) < MaxRequests
      /\ IF count >= MAX_SPECTATORS_PER_MATCH
           THEN /\ sockets' = [sockets EXCEPT ![ws].state = "closing"]
                /\ UNCHANGED subscribing
           ELSE /\ subscribing' = subscribing \cup {call}
                /\ UNCHANGED sockets
      /\ lastOp' = [op |-> "addSpectator", ws |-> ws, channel |-> channel,
                    count |-> count,
                    denied |-> count >= MAX_SPECTATORS_PER_MATCH]
      /\ UNCHANGED <<spectators, subscribed, collisionVars, matchmakerVars,
                     voiceVars, authVars>>

\* redis.subscribe(channel) has resolved: addSpectator runs on to its end
Subscribed(call) ==
  /\ call \in subscribing
  /\ subscribing' = subscribing \ {call}
  /\ subscribed' = subscribed \cup {call.channel}
  /\ spectators' = [id \in DOMAIN spectators \cup {call.ws} |->
                      IF id = call.ws THEN call.channel ELSE spectators[id]]
  /\ sockets' = [sockets EXCEPT ![call.ws].listeners =
                   Append(@, SpectatorListener(call.channel))]
  /\ lastOp' = [op |-> "subscribed", ws |-> call.ws, channel |-> call.channel]
  /\ UNCHANGED <<collisionVars, matchmakerVars, voiceVars, authVars>>

NextSpectators ==
  \/ \E matchId \in MatchIds, ws \in Watchers : AddSpectator(matchId, ws)
  \/ \E call \in subscribing : Subscribed(call)
  \/ \E ws \in Watchers \cup {1} : Close(ws)

SpecSpectators == InitSpectators /\ [][NextSpectators]_vars

(***************************************************************************)
(* SpecMatchmaker: Matchmaker ("Matchmaker.js") under joinQueue calls.     *)
(* Every await of a Redis command is a point where another call can run;   *)
(* a step of the model is one Redis command together with the code that    *)
(* runs up to the next await.  The queue's TTL does not run out while the  *)
(* model runs.                                                             *)
(***************************************************************************)

MATCH_THRESHOLD == 4

\* players that call joinQueue while the model runs
MaxJoiners == 2

\* the largest value of Date.now()
MaxClock == 1

Regions == {"eu", "us"}

\* players queued in region "eu" before the model starts, with ids 1..k
QueuedSizes == {MATCH_THRESHOLD - 2, MATCH_THRESHOLD - 1}

Joiners == MATCH_THRESHOLD..(MATCH_THRESHOLD + MaxJoiners - 1)

\* ZADD key score member: the member's score is set, also when it is queued
zadd(q, score, id) == { e \in q : e.id # id } \cup {[id |-> id, score |-> score]}

\* the order of a sorted set: by score, members of one score by their name
\* (the ids of the model are one digit long, so their order is that of the
\* digit)
Precedes(a, b) == a.score < b.score \/ (a.score = b.score /\ a.id <= b.id)

RECURSIVE zrangeAll(_)
zrangeAll(q) ==
  IF q = {} THEN <<>>
  ELSE LET first == CHOOSE a \in q : \A b \in q : Precedes(a, b)
       IN  <<first.id>> \o zrangeAll(q \ {first})

\* ZRANGE key start stop, both ends included
zrange(q, start, stop) ==
  LET all == zrangeAll(q)
      last == IF stop + 1 < Len(all) THEN stop + 1 ELSE Len(all)
  IN  SubSeq(all, start + 1, last)

\* ZREM key member ...
zrem(q, ids) == { e \in q : e.id \notin Range(ids) }

\* getPlayerRegion: no hash players:<id> exists (nothing in the repository
\* writes one), so hgetall yields {} and the function its fallback
getPlayerRegion(playerId) == "global"

JoinCall(region, seq) ==
  [pc |-> "expire", region |-> region, seq |-> seq, count |-> 0,
   playerIds |-> <<>>, queued |-> <<>>, left |-> {}]

InitMatchmaker ==
  /\ \E k \in QueuedSizes :
       queues = [r \in Regions |->
                   IF r = "eu" THEN { [id |-> i, score |-> 0] : i \in 1..k } ELSE {}]
  /\ joinCalls = <<>>
  /\ created = <<>>
  /\ now = 0
  /\ sockets = <<>>
  /\ spectators = <<>> /\ subscribing = {} /\ subscribed = {}
  /\ connections = <<>> /\ peers = <<>>
  /\ users = <<>> /\ authCalls = <<>> /\ authResults = <<>>
  /\ quadTree = <<>> /\ inserted = <<>> /\ found = <<>> /\ epoch = 0
  /\ IdleGeom
  /\ IdleEngine
  /\ lastOp = [op |-> "init"]

notMatchmaker == <<collisionVars, sockets, spectatorVars, voiceVars, authVars>>

\* the clock advances
Tick ==
  /\ now < MaxClock
  /\ now' = now + 1
  /\ lastOp' = [op |-> "tick"]
  /\ UNCHANGED <<queues, joinCalls, created, notMatchmaker>>

\* joinQueue(player) up to the reply of zadd
JoinQueue(player, region) ==
  /\ player \notin DOMAIN joinCalls
  /\ queues' = [queues EXCEPT ![region] = zadd(@, now, player)]
  /\ joinCalls' = [p \in DOMAIN joinCalls \cup {player} |->
                     IF p = player
                       THEN JoinCall(region, Cardinality(DOMAIN joinCalls) + 1)
                       ELSE joinCalls[p]]
  /\ lastOp' = [op |-> "joinQueue", player |-> player]
  /\ UNCHANGED <<created, now, notMatchmaker>>

\* await redis.expire(queueKey, QUEUE_TTL)
Expire(player) ==
  /\ player \in DOMAIN joinCalls
  /\ joinCalls[player].pc = "expire"
  /\ joinCalls' = [joinCalls EXCEPT ![player].pc = "zcard"]
  /\ lastOp' = [op |-> "expire", player |-> player]
  /\ UNCHANGED <<queues, created, now, notMatchmaker>>

\* checkMatches: count = await redis.zcard(queueKey), and the test on it
Zcard(player) ==
  /\ player \in DOMAIN joinCalls
  /\ joinCalls[player].pc = "zcard"
  /\ LET count == Cardinality(queues[joinCalls[player].region])
     IN  joinCalls' = [joinCalls EXCEPT
           ![player].count = count,
           ![player].pc = IF count >= MATCH_THRESHOLD THEN "zrange" ELSE "done"]
  /\ lastOp' = [op |-> "zcard", player |-> player]
  /\ UNCHANGED <<queues, created, now, notMatchmaker>>

\* playerIds = await redis.zrange(queueKey, 0, MATCH_THRESHOLD - 1)
Zrange(player) ==
  /\ player \in DOMAIN joinCalls
  /\ joinCalls[player].pc = "zrange"
  /\ LET q == queues[joinCalls[player].region]
     IN  joinCalls' = [joinCalls EXCEPT
           ![player].playerIds = zrange(q, 0, MATCH_THRESHOLD - 1),
           ![player].queued = zrangeAll(q),
           ![player].pc = "zrem"]
  /\ lastOp' = [op |-> "zrange", player |-> player]
  /\ UNCHANGED <<queues, created, now, notMatchmaker>>

\* await redis.zrem(queueKey, ...playerIds): with no member to remove the
\* command is malformed, Redis answers with an error and the call ends there
Zrem(player) ==
  /\ player \in DOMAIN joinCalls
  /\ joinCalls[player].pc = "zrem"
  /\ LET call == joinCalls[player]
         q == zrem(queues[call.region], call.playerIds)
     IN  IF call.playerIds = <<>>
           THEN /\ joinCalls' = [joinCalls EXCEPT ![player].pc = "failed"]
                /\ UNCHANGED queues
           ELSE /\ queues' = [queues EXCEPT ![call.region] = q]
                /\ joinCalls' = [joinCalls EXCEPT
                     ![player].left = { e.id : e \in q },
                     ![player].pc = "createMatch"]
  /\ lastOp' = [op |-> "zrem", player |-> player]
  /\ UNCHANGED <<created, now, notMatchmaker>>

\* createMatch(playerIds): the match is stored; what it reads and writes is
\* the match's own key and the players' hashes, which no other call touches
CreateMatch(player) ==
  /\ player \in DOMAIN joinCalls
  /\ joinCalls[player].pc = "createMatch"
  /\ LET call == joinCalls[player]
     IN  created' = Append(created,
           [players |-> call.playerIds,
            region |-> getPlayerRegion(call.playerIds[1]),
            createdAt |-> now,
            queue |-> call.region, queued |-> call.queued, left |-> call.left])
  /\ joinCalls' = [joinCalls EXCEPT ![player].pc = "done"]
  /\ lastOp' = [op |-> "createMatch", player |-> player]
  /\ UNCHANGED <<queues, now, notMatchmaker>>

NextMatchmaker ==
  \/ Tick
  \/ \E player \in Joiners, region \in Regions : JoinQueue(player, region)
  \/ \E player \in Joiners : Expire(player)
  \/ \E player \in Joiners : Zcard(player)
  \/ \E player \in Joiners : Zrange(player)
  \/ \E player \in Joiners : Zrem(player)
  \/ \E player \in Joiners : CreateMatch(player)

SpecMatchmaker == InitMatchmaker /\ [][NextMatchmaker]_vars

(***************************************************************************)
(* SpecVoice: VoiceChatService ("voiceChatSystem.js") under offers and     *)
(* socket closes.  handleOffer has no await: it runs from its first        *)
(* statement to its last without another handler in between.               *)
(***************************************************************************)

MAX_VOICE_CONNECTIONS == 10

\* sockets that send offers while the model runs
MaxCallers == 2

\* offers of one socket that are accepted
MaxOffers == 1

\* connections of match "A" made before the model starts, by sockets 1..k
ConnectedSizes == {MAX_VOICE_CONNECTIONS - 2, MAX_VOICE_CONNECTIONS - 1}

Callers == (MAX_VOICE_CONNECTIONS + 1)..(MAX_VOICE_CONNECTIONS + MaxCallers)

\* this.connections.get(matchId) || []
ConnectionsOf(matchId) ==
  IF matchId \in DOMAIN connections THEN connections[matchId] ELSE <<>>

\* the limit test of handleOffer taken with >
AtLimitExclusive(list) == Len(list) > MAX_VOICE_CONNECTIONS

\* list.length >= this.MAX_VOICE_CONNECTIONS
AtLimit(list) == Len(list) >= MAX_VOICE_CONNECTIONS

InitVoice ==
  /\ \E k \in ConnectedSizes :
       /\ connections = [m \in {"A"} |-> [i \in 1..k |-> [ws |-> i, peer |-> i]]]
       /\ peers = [i \in 1..k |-> FALSE]
       /\ sockets = [id \in (1..k) \cup Callers |->
                       IF id <= k THEN Socket(<<VoiceListener("A", id)>>)
                       ELSE Socket(<<>>)]
  /\ spectators = <<>> /\ subscribing = {} /\ subscribed = {}
  /\ queues = <<>> /\ joinCalls = <<>> /\ created = <<>> /\ now = 0
  /\ users = <<>> /\ authCalls = <<>> /\ authResults = <<>>
  /\ quadTree = <<>> /\ inserted = <<>> /\ found = <<>> /\ epoch = 0
  /\ IdleGeom
  /\ IdleEngine
  /\ lastOp = [op |-> "init"]

\* handleOffer(ws, offer) with offer.matchId = matchId
HandleOffer(ws, matchId) ==
  LET list == ConnectionsOf(matchId)
      peer == Len(peers) + 1
  IN  /\ sockets[ws].state = "open"
      /\ IF AtLimit(list)
           THEN /\ lastOp' = [op |-> "offer", ws |-> ws, matchId |-> matchId,
                              count |-> Len(list), reply |-> "voice-denied"]
                /\ UNCHANGED <<connections, peers, sockets>>
           ELSE /\ Len(sockets[ws].listeners) < MaxOffers
                /\ peers' = Append(peers, FALSE)
                /\ connections' =
                     [m \in DOMAIN connections \cup {matchId} |->
                        IF m = matchId THEN Append(list, [ws |-> ws, peer |-> peer])
                        ELSE connections[m]]
                /\ sockets' = [sockets EXCEPT ![ws].listeners =
                                 Append(@, VoiceListener(matchId, peer))]
                /\ lastOp' = [op |-> "offer", ws |-> ws, matchId |-> matchId,
                              count |-> Len(list), reply |-> "none"]
      /\ UNCHANGED <<collisionVars, spectatorVars, matchmakerVars, authVars>>

NextVoice ==
  \/ \E ws \in Callers, matchId \in MatchIds : HandleOffer(ws, matchId)
  \/ \E ws \in Callers \cup {1} : Close(ws)

SpecVoice == InitVoice /\ [][NextVoice]_vars

(***************************************************************************)
(* SpecAuth: AuthService.authenticate ("AuthService.js") against the user  *)
(* hashes in Redis, which logins and revocations elsewhere rewrite.  A     *)
(* token is what jwt.verify reads from it: its payload's id, the key it    *)
(* was signed with, its expiry and a serial that tells two tokens of one   *)
(* user apart.  The hashes of the model carry no mmr field.                *)
(***************************************************************************)

\* authenticate calls
MaxAuthCalls == 2

\* process.env.JWT_SECRET
JWT_SECRET == "secret"

Jwt(sub, key, exp, n) == [kind |-> "jwt", sub |-> sub, key |-> key, exp |-> exp, n |-> n]

NeverExpires == MaxClock + 1

\* the tokens presented to authenticate
Tokens ==
  { Jwt("u1", JWT_SECRET, NeverExpires, 1),   \* a session of user u1
    Jwt("u1", JWT_SECRET, NeverExpires, 2),   \* a later session of user u1
    Jwt("u1", JWT_SECRET, MaxClock, 3),       \* a session that expires
    Jwt("u1", "forged", NeverExpires, 1),     \* signed with another key
    Jwt("u2", JWT_SECRET, NeverExpires, 1),   \* of a user with no hash
    [kind |-> "malformed", sub |-> "", key |-> "", exp |-> 0, n |-> 0] }

\* the session tokens a login stores for user u1
SessionTokens == { t \in Tokens : t.sub = "u1" /\ t.key = JWT_SECRET }

\* the hashes users:u1 the model's logins and revocations write
UserHashes ==
  [sessionToken : SessionTokens]                          \* logged in
    \cup { [sessionToken |-> t, inventory |-> "{"] :      \* inventory is no JSON
             t \in { u \in SessionTokens : u.n = 1 } }
    \cup { <<>> }                                          \* session revoked

\* jwt.verify(token, secret): the payload, or an exception
verify(token, secret) ==
  IF token.kind = "jwt" /\ token.key = secret /\ now < token.exp
    THEN [ok |-> TRUE, id |-> token.sub]
    ELSE [ok |-> FALSE, id |-> ""]

\* redis.hgetall(key): the hash, {} when there is none
hgetall(id) == IF id \in DOMAIN users THEN users[id] ELSE <<>>

\* authenticate with the comparison of the session token left out
SessionUnchecked(user, token) == TRUE

\* user.sessionToken !== token does not hold
SessionMatches(user, token) == Has(user, "sessionToken") /\ user.sessionToken = token

\* JSON.parse(user.inventory || "[]"): "[]" parses, "{" does not
ParsesAsJson(user) == Has(user, "inventory") => user.inventory = "[]"

AuthenticationError == [status |-> 401, name |-> "AuthenticationError"]

InitAuth ==
  /\ users \in { <<>> } \cup { [id \in {"u1"} |-> h] : h \in UserHashes }
  /\ authCalls = <<>>
  /\ authResults = <<>>
  /\ now = 0
  /\ sockets = <<>>
  /\ spectators = <<>> /\ subscribing = {} /\ subscribed = {}
  /\ queues = <<>> /\ joinCalls = <<>> /\ created = <<>>
  /\ connections = <<>> /\ peers = <<>>
  /\ quadTree = <<>> /\ inserted = <<>> /\ found = <<>> /\ epoch = 0
  /\ IdleGeom
  /\ IdleEngine
  /\ lastOp = [op |-> "init"]

notAuth == <<collisionVars, sockets, spectatorVars, matchmakerVars, voiceVars>>

\* a login or a revocation elsewhere rewrites the hash of user u1
WriteUser(hash) ==
  /\ users # [id \in {"u1"} |-> hash]
  /\ users' = [id \in {"u1"} |-> hash]
  /\ lastOp' = [op |-> "writeUser"]
  /\ UNCHANGED <<authCalls, authResults, notAuth>>

\* the hash of user u1 is deleted
DeleteUser ==
  /\ users # <<>>
  /\ users' = <<>>
  /\ lastOp' = [op |-> "deleteUser"]
  /\ UNCHANGED <<authCalls, authResults, notAuth>>

\* authenticate(token) up to await redis.hgetall, or to the catch when
\* jwt.verify throws
Authenticate(token) ==
  LET call == Len(authCalls) + 1
      decoded == verify(token, JWT_SECRET)
  IN  /\ call <= MaxAuthCalls
      /\ authCalls' = Append(authCalls,
           [token |-> token, decoded |-> decoded,
            pc |-> IF decoded.ok THEN "hgetall" ELSE "done"])
      /\ authResults' =
           IF decoded.ok THEN authResults
           ELSE [c \in DOMAIN authResults \cup {call} |->
                   IF c = call
                     THEN [threw |-> TRUE, error |-> AuthenticationError,
                           verified |-> FALSE, read |-> FALSE, hash |-> <<>>]
                     ELSE authResults[c]]
      /\ lastOp' = [op |-> "authenticate", call |-> call]
      /\ UNCHANGED <<users, notAuth>>

\* Redis answers the hgetall of the call with the hash as it is now, and
\* authenticate runs on to its return or its catch
HgetallReply(call) ==
  /\ call \in DOMAIN authCalls
  /\ authCalls[call].pc = "hgetall"
  /\ LET token == authCalls[call].token
         id == authCalls[call].decoded.id
         user == hgetall(id)
         returns == SessionMatches(user, token) /\ ParsesAsJson(user)
     IN  authResults' =
           [c \in DOMAIN authResults \cup {call} |->
              IF c # call THEN authResults[c]
              ELSE IF returns
                THEN [threw |-> FALSE,
                      user |-> [id |-> id, mmr |-> "NaN",
                                inventory |-> IF Has(user, "inventory")
                                                THEN user.inventory ELSE "[]"],
                      verified |-> TRUE, read |-> TRUE, hash |-> user]
                ELSE [threw |-> TRUE, error |-> AuthenticationError,
                      verified |-> TRUE, read |-> TRUE, hash |-> user]]
  /\ authCalls' = [authCalls EXCEPT ![call].pc = "done"]
  /\ lastOp' = [op |-> "hgetallReply", call |-> call]
  /\ UNCHANGED <<users, notAuth>>

NextAuth ==
  \/ Tick
  \/ \E hash \in UserHashes : WriteUser(hash)
  \/ DeleteUser
  \/ \E token \in Tokens : Authenticate(token)
  \/ \E call \in 1..MaxAuthCalls : HgetallReply(call)

SpecAuth == InitAuth /\ [][NextAuth]_vars

(***************************************************************************)
(* Properties                                                              *)
(***************************************************************************)

DistSq(a, b) == (a.x - b.x) * (a.x - b.x) + (a.y - b.y) * (a.y - b.y)

\* every region update or insert has subdivided halves exactly
ExactHalves ==
  \A q \in DOMAIN quadTree :
    quadTree[q].divided =>
      quadTree[q].boundary.width % 2 = 0 /\ quadTree[q].boundary.height % 2 = 0

Clamp(v, lo, hi) == IF v < lo THEN lo ELSE IF v > hi THEN hi ELSE v

\* the squared distance from the circle's center to the nearest point of the
\* rectangle
NearestDistSq(rect, circle) ==
  LET px == Clamp(circle.x, rect.x, rect.x + rect.width)
      py == Clamp(circle.y, rect.y, rect.y + rect.height)
  IN  (circle.x - px) * (circle.x - px) + (circle.y - py) * (circle.y - py)

\* C4: for every rectangle with width, height >= 0 and every circle with
\* radius >= 0, intersects returns true exactly when the squared distance from
\* the circle's center to the nearest point of the rectangle is at most the
\* radius squared.
C4_IntersectsIffWithinRadius ==
  Applied("intersects") =>
    (output.intersects <=>
       NearestDistSq(input.rect, input.circle)
         <= input.circle.radius * input.circle.radius)

\* the circle touches a corner of the rectangle from outside, and intersects
\* said true
C4_Witness ==
  /\ Applied("intersects")
  /\ output.intersects
  /\ input.circle.x > input.rect.x + input.rect.width
  /\ input.circle.y > input.rect.y + input.rect.height
  /\ NearestDistSq(input.rect, input.circle)
       = input.circle.radius * input.circle.radius
  /\ input.circle.radius > 0

\* C5: for all rectangles (width, height >= 0) and circles (radius >= 0), a
\* circle the rectangle contains is a circle the rectangle intersects.
C5_ContainsImpliesIntersects ==
  (Applied("contains") /\ Applied("intersects")) =>
    (output.contains => output.intersects)

\* both predicates were applied to a circle of positive radius that the
\* rectangle contains
C5_Witness ==
  /\ Applied("contains") /\ Applied("intersects")
  /\ output.contains
  /\ input.circle.radius > 0

\* C9: circleCollision(a, b) is true exactly when the distance between the
\* centers is below the sum of the radii, each circle counting with its own
\* radius (any radius >= 0) and with the default only when it has none.
C9_CollidesIffDistanceBelowRadii ==
  Applied("circleCollision") =>
    (output.circleCollision <=>
       LET sum == RadiusOrWhenAbsent(input.a, COLLISION_DEFAULT_RADIUS)
                    + RadiusOrWhenAbsent(input.b, COLLISION_DEFAULT_RADIUS)
       IN  DistSq(input.a, input.b) < sum * sum)


\* the two circles overlap: the distance between the centers is below the sum
\* of the radii
Overlaps(a, b) ==
  DistSq(a, b) < (a.radius + b.radius) * (a.radius + b.radius)

\* C2: after any inserts with no clear in between, a retrieve whose query
\* circle covers the whole region of the index returns every entity the
\* region contained when it was inserted.
C2_CoveringRetrieveReturnsContained ==
  (found.valid /\ found.query = CoveringQuery) =>
    \A k \in DOMAIN inserted :
      inserted[k].contained => inserted[k].obj \in Range(found.result)

\* C3: for any tree the inserts built and any query circle, retrieve returns
\* every stored entity whose circle overlaps the query circle.
C3_RetrieveSupersetOfOverlaps ==
  found.valid =>
    \A o \in Stored(quadTree) :
      Overlaps(o, found.query) => o \in Range(found.result)

\* a retrieve on a subdivided tree returned an overlapping entity stored in a
\* child node and left out an entity stored elsewhere
C3_Witness ==
  /\ found.valid
  /\ quadTree[Root].divided
  /\ \E o \in ObjectsOf(quadTree, Live(quadTree) \ {Root}) :
       Overlaps(o, found.query) /\ o \in Range(found.result)
  /\ \E o \in Stored(quadTree) : o \notin Range(found.result)

\* the live nodes with no children
Leaves(t) == { q \in Live(t) : ~t[q].divided }

\* C6: after any inserts with no clear in between, no leaf node holds more
\* entities than its capacity.
C6_LeafWithinCapacity ==
  \A q \in Leaves(quadTree) : Len(quadTree[q].objects) <= quadTree[q].capacity

\* a leaf below the root is full, and an insert after it was full went on to
\* another node
C6_Witness ==
  \E q \in Leaves(quadTree) \ {Root} :
    /\ Len(quadTree[q].objects) = quadTree[q].capacity
    /\ \E o \in Stored(quadTree) :
         /\ contains(quadTree[q].boundary, o)
         /\ \A i \in DOMAIN quadTree[q].objects :
              quadTree[q].objects[i].ref.n < o.ref.n
         /\ \A a \in Live(quadTree) :
              (a = q \/ Below(a, q)) => o \notin Range(quadTree[a].objects)

\* the tree is the empty leaf clear() leaves
EmptyLeaf(t) ==
  /\ t[Root].objects = <<>>
  /\ ~t[Root].divided
  /\ Stored(t) = {}
  /\ \A query \in TreeQueries : retrieve(t, Root, query, <<>>) = <<>>

\* C7: from any reachable tree, clear() called twice leaves the same state as
\* clear() called once: an empty leaf with nothing stored, on which retrieve
\* returns nothing for every query.
C7_ClearIdempotent ==
  LET once == clear(quadTree, Root)
  IN  /\ clear(once, Root) = once
      /\ EmptyLeaf(once)
      /\ lastOp.op = "clear" => (quadTree = once /\ EmptyLeaf(quadTree))

\* clear() was called twice in a row on a tree that had been subdivided
C7_Witness ==
  /\ lastOp.op = "clear"
  /\ lastOp.again
  /\ epoch >= 1
  /\ DOMAIN quadTree # {Root}


\* the region of the engine's index is a rectangle with every field defined
\* and a positive size
WellFormedRegion ==
  LET b == quadTree[Root].boundary
  IN  Defined(b) /\ b.width > 0 /\ b.height > 0

\* the radius a player counts with: its own, 12 when it has none
PlayerRadius(p) == RadiusOrWhenAbsent(p, PLAYER_DEFAULT_RADIUS)

\* every player and projectile of the snapshot lies inside the index region
InsideRegion(gs) ==
  /\ \A i \in DOMAIN gs.players :
       contains(quadTree[Root].boundary,
                Circle(gs.players[i].x, gs.players[i].y, PlayerRadius(gs.players[i])))
  /\ \A j \in DOMAIN gs.projectiles :
       contains(quadTree[Root].boundary,
                Circle(gs.projectiles[j].x, gs.projectiles[j].y, PROJECTILE_RADIUS))

\* how often the last call invoked onHit for projectile j with the Circle that
\* update made for player i
HitCount(j, i) ==
  Cardinality({ k \in DOMAIN hits :
                  /\ hits[k].index = j
                  /\ hits[k].target.ref = [epoch |-> epoch, kind |-> "player", n |-> i] })

\* C1: on an enabled engine with a well-formed region and a snapshot that lies
\* inside it, checkCollisions after update of the same snapshot invokes onHit
\* exactly once for every (projectile, player) pair whose center distance is
\* below 2 plus the player's radius (12 when it has none), and never for
\* another pair.  (Stated for an onHit that only records the hit, and for
\* players whose radius is absent or positive.)
C1_OneHitPerOverlappingPair ==
  ( /\ lastOp.op = "checkCollisions"
    /\ lastOp.enabled
    /\ lastOp.cb = "record"
    /\ \A i \in DOMAIN lastOp.snapshot.players :
         PlayerRadius(lastOp.snapshot.players[i]) > 0
    /\ WellFormedRegion
    /\ Indexed(lastOp.snapshot)
    /\ InsideRegion(lastOp.snapshot) ) =>
    LET gs == lastOp.snapshot
    IN  \A j \in DOMAIN gs.projectiles, i \in DOMAIN gs.players :
          LET reach == PROJECTILE_RADIUS + PlayerRadius(gs.players[i])
          IN  HitCount(j, i) =
                IF DistSq(gs.projectiles[j], gs.players[i]) < reach * reach
                  THEN 1 ELSE 0

Made(gs) == Range(PlayerCircles(gs, epoch) \o ProjectileCircles(gs, epoch))

\* C10: after update(S) on an enabled engine, every collidable stored in the
\* index is one this update made for a player or projectile of S, and no
\* probe returns anything else.
C10_IndexHoldsOnlyCurrentSnapshot ==
  (lastOp.op = "update" /\ lastOp.enabled) =>
    LET gs == gameState[lastOp.m]
    IN  /\ Stored(quadTree) \subseteq Made(gs)
        /\ \A q \in ProjectileChoices :
             Range(retrieve(quadTree, Root, Circle(q.x, q.y, PROJECTILE_RADIUS), <<>>))
               \subseteq Made(gs)

\* a second rebuild whose index holds fewer collidables than the one it
\* replaced
C10_Witness ==
  /\ lastOp.op = "update"
  /\ lastOp.enabled
  /\ epoch >= 2
  /\ Stored(quadTree) # {}
  /\ lastOp.discarded > Cardinality(Stored(quadTree))

\* C11: between clears a node's divided flag only goes from false to true: no
\* insert and no retrieve resets it or drops the node.  clear() leaves the root
\* an empty leaf, not divided, and every node below it empty and not divided;
\* a later retrieve returns no entity inserted before the clear.
C11_DividedUntilClear ==
  [][ /\ lastOp'.op \in {"insert", "retrieve"} =>
           \A q \in DOMAIN quadTree :
             quadTree[q].divided => (q \in DOMAIN quadTree' /\ quadTree'[q].divided)
      /\ lastOp'.op = "clear" =>
           /\ \A q \in DOMAIN quadTree' :
                quadTree'[q].objects = <<>> /\ ~quadTree'[q].divided
           /\ Stored(quadTree') = {}
      /\ lastOp'.op = "retrieve" =>
           \A o \in Range(found'.result) : o.ref.epoch = epoch' ]_vars

\* clear() was called on a subdivided tree that held entities below the root
C11_Witness ==
  /\ lastOp.op = "clear"
  /\ lastOp.divided
  /\ lastOp.below > 0
  /\ ~quadTree[Root].divided
\* a hit as the callback sees it: the projectile's index and the entity hit
Seen(h) ==
  [index |-> h.index, kind |-> h.target.ref.kind, n |-> h.target.ref.n,
   x |-> h.target.x, y |-> h.target.y, radius |-> h.target.radius]

\* the hits checkCollisions reports on an index of the match's own, built by
\* update from the snapshot gs
OwnIndexHits(gs, current, cb) ==
  LET own == [p \in {Root} |->
                QuadTree(quadTree[Root].boundary, quadTree[Root].capacity)]
  IN  checkCollisions(update(own, gs, 0).tree, current, cb).hits

\* C12: with two matches calling the engine in any interleaving, the hits
\* reported by a match's checkCollisions are those an index of its own would
\* report: they depend on the snapshot of the match's own most recent update
\* only, never on what the other match put into the index.
C12_HitsFromOwnSnapshotOnly ==
  ( /\ lastOp.op = "checkCollisions"
    /\ lastOp.enabled
    /\ lastOp.m \in DOMAIN lastUpdate ) =>
    [k \in DOMAIN hits |-> Seen(hits[k])]
      = LET own == OwnIndexHits(lastUpdate[lastOp.m], lastOp.snapshot, lastOp.cb)
        IN  [k \in DOMAIN own |-> Seen(own[k])]

\* the Circle update makes for player i / projectile j of the snapshot
PlayerCircle(gs, i) == PlayerCircles(gs, epoch)[i]

ProjectileCircle(gs, j) == ProjectileCircles(gs, epoch)[j]

\* the entity's Circle is stored in the index and every probe of
\* ProjectileChoices that overlaps it returns it
StoredAndRetrieved(o) ==
  /\ o \in Stored(quadTree)
  /\ \A q \in ProjectileChoices :
       LET probe == Circle(q.x, q.y, PROJECTILE_RADIUS)
       IN  Overlaps(o, probe) => o \in Range(retrieve(quadTree, Root, probe, <<>>))

\* C13: the region of the engine's index has x, y, width and height defined,
\* and after update on an enabled engine with a snapshot of at most
\* QUADTREE_CAPACITY entities, every player and projectile whose Circle lies
\* inside the configured world bounds is stored in the index and returned by
\* every probe that overlaps it.
C13_RegionDefinedAndEntitiesIndexed ==
  (lastOp.op = "update" /\ lastOp.enabled) =>
    LET gs == gameState[lastOp.m]
        b == quadTree[Root].boundary
    IN  /\ Defined(b)
        /\ Len(gs.players) + Len(gs.projectiles) <= QUADTREE_CAPACITY =>
             /\ \A i \in DOMAIN gs.players :
                  contains(b, PlayerCircle(gs, i)) =>
                    StoredAndRetrieved(PlayerCircle(gs, i))
             /\ \A j \in DOMAIN gs.projectiles :
                  contains(b, ProjectileCircle(gs, j)) =>
                    StoredAndRetrieved(ProjectileCircle(gs, j))
\* C14: under any interleaving of addSpectator calls and socket closes, no
\* match has more than MAX_SPECTATORS_PER_MATCH spectators registered, and a
\* request that finds the match at the limit is denied and not registered.
C14_SpectatorsWithinLimit ==
  /\ \A matchId \in MatchIds :
       SpectatorCount(Channel(matchId)) <= MAX_SPECTATORS_PER_MATCH
  /\ (lastOp.op = "addSpectator" /\ lastOp.count >= MAX_SPECTATORS_PER_MATCH) =>
       /\ lastOp.denied
       /\ [ws |-> lastOp.ws, channel |-> lastOp.channel] \notin subscribing
\* when the player entered the queue: the players queued before the model
\* starts in the order of their ids, then the joinQueue calls in their order
Arrival(id) ==
  IF id \in DOMAIN joinCalls THEN MATCH_THRESHOLD + joinCalls[id].seq ELSE id

\* the n players of the set that entered the queue first
Earliest(ids, n) ==
  { a \in ids : Cardinality({ b \in ids : Arrival(b) < Arrival(a) }) < n }

\* C15: every match created was taken from a queue that held at least
\* MATCH_THRESHOLD players, consists of exactly MATCH_THRESHOLD players, those
\* that entered that region's queue first, and none of them was left in the
\* queue.
C15_MatchOfThresholdEarliest ==
  \A k \in DOMAIN created :
    LET m == created[k]
    IN  /\ Len(m.queued) >= MATCH_THRESHOLD
        /\ Len(m.players) = MATCH_THRESHOLD
        /\ Range(m.players) = Earliest(Range(m.queued), MATCH_THRESHOLD)
        /\ Range(m.players) \cap m.left = {}
\* C16: after any sequence of offers and socket closes no match has more than
\* MAX_VOICE_CONNECTIONS connections; an offer that finds the match at the
\* limit is answered with voice-denied and adds no connection; after a
\* socket's close no connection of that socket is left in any match.
C16_VoiceConnectionsWithinLimit ==
  /\ \A m \in DOMAIN connections : Len(connections[m]) <= MAX_VOICE_CONNECTIONS
  /\ lastOp.op = "offer" =>
       IF lastOp.count >= MAX_VOICE_CONNECTIONS
         THEN /\ lastOp.reply = "voice-denied"
              /\ Len(ConnectionsOf(lastOp.matchId)) = lastOp.count
         ELSE /\ lastOp.reply = "none"
              /\ Len(ConnectionsOf(lastOp.matchId)) = lastOp.count + 1
  /\ lastOp.op = "close" =>
       \A m \in DOMAIN connections :
         \A i \in DOMAIN connections[m] : connections[m][i].ws # lastOp.ws

\* an offer found its match at the limit and was denied, after a socket with
\* a connection in that match had closed and another had taken its place
C16_Witness ==
  /\ lastOp.op = "offer"
  /\ lastOp.reply = "voice-denied"
  /\ Len(ConnectionsOf(lastOp.matchId)) = MAX_VOICE_CONNECTIONS
  /\ \E id \in DOMAIN sockets :
       sockets[id].state = "closed" /\ sockets[id].listeners # <<>>
\* the token is the session token of the hash Redis answered with
IsStoredSession(hash, token) ==
  "sessionToken" \in DOMAIN hash /\ hash.sessionToken = token

\* C17: authenticate returns a user record only when the token verified and
\* is the sessionToken of the user's hash as Redis answered with it; when the
\* verification failed, the user has no hash, or the hash holds no or another
\* sessionToken, it throws AuthenticationError and returns nothing.  So a call
\* that reads the hash after the session token was replaced or removed fails.
C17_AuthenticatesOnlyStoredSession ==
  \A c \in DOMAIN authResults :
    LET r == authResults[c]
        token == authCalls[c].token
        accepted == r.verified /\ r.read /\ IsStoredSession(r.hash, token)
    IN  /\ ~r.threw => (accepted /\ r.user.id = token.sub)
        /\ ~accepted =>
             (r.threw /\ r.error = AuthenticationError /\ "user" \notin DOMAIN r)
        /\ (lastOp.op = "hgetallReply" /\ lastOp.call = c
              /\ ~IsStoredSession(hgetall(token.sub), token)) => r.threw

\* a token authenticated, its session was then replaced in the hash, and the
\* same token was refused
C17_Witness ==
  \E c, d \in DOMAIN authResults :
    /\ c < d
    /\ authCalls[c].token = authCalls[d].token
    /\ ~authResults[c].threw
    /\ authResults[d].threw
    /\ authResults[d].verified
    /\ "sessionToken" \in DOMAIN authResults[d].hash
\* the live nodes that hold the object, and how often node q holds it
Holders(o) == { q \in Live(quadTree) : o \in Range(quadTree[q].objects) }

Occurrences(seq, o) == Cardinality({ i \in DOMAIN seq : seq[i] = o })

\* the children of q's parent that insert tries before q
TriedBefore(q) ==
  LET parent == SubSeq(q, 1, Len(q) - 1)
  IN  { Child(parent, i) : i \in { j \in 1..4 : \E k \in (j + 1)..4 : Child(parent, k) = q } }

\* node q and each of its ancestors below the root is the first child, in the
\* order NE, NW, SE, SW, that could take the object: a child tried before it
\* does not contain the object or is full
FirstInOrder(q, o) ==
  \A n \in 1..Len(q) :
    \A c \in TriedBefore(SubSeq(q, 1, n)) :
      contains(quadTree[c].boundary, o) => ~HasRoom(quadTree[c])

\* C18: after any inserts and clears, every collidable whose insert returned
\* true since the last clear is stored in exactly one node, once; that node's
\* region and the region of each of its ancestors contains it; it went to the
\* first accepting child in the order NE, NW, SE, SW; and no retrieve returns
\* a collidable twice.
C18_StoredOnceInFirstAcceptingNode ==
  /\ \A k \in DOMAIN inserted :
       inserted[k].ok =>
         LET o == inserted[k].obj
         IN  /\ Cardinality(Holders(o)) = 1
             /\ \A q \in Holders(o) :
                  /\ Occurrences(quadTree[q].objects, o) = 1
                  /\ \A n \in 0..Len(q) :
                       contains(quadTree[SubSeq(q, 1, n)].boundary, o)
                  /\ FirstInOrder(q, o)
  /\ found.valid =>
       \A o \in Range(found.result) : Occurrences(found.result, o) = 1

\* a collidable that more than one quadrant contains is stored in the first
\* of them, and a retrieve returned it together with another collidable
C18_Witness ==
  /\ found.valid
  /\ Len(found.result) >= 2
  /\ \E k \in DOMAIN inserted :
       /\ inserted[k].ok
       /\ inserted[k].obj \in Range(found.result)
       /\ \E q \in Holders(inserted[k].obj) :
            /\ Len(q) >= 1
            /\ q[Len(q)] = ChildNames[1]
            /\ \E c \in DOMAIN quadTree :
                 /\ Len(c) = Len(q) /\ c # q
                 /\ SubSeq(c, 1, Len(c) - 1) = SubSeq(q, 1, Len(q) - 1)
                 /\ contains(quadTree[c].boundary, inserted[k].obj)

\* the objects of node q, <<>> for a path that is no node
ObjectsAt(t, q) == IF q \in DOMAIN t THEN t[q].objects ELSE <<>>

\* C19: insert returns false only when the root's region does not contain the
\* entity, or the root is full and no child tried takes it (each does not
\* contain it, or is full itself).  When insert returns false the entity is
\* stored in no node, the objects of every node are what they were before the
\* call, and no later retrieve returns the entity.
C19_RejectedInsertStoresNothing ==
  [][ /\ lastOp'.op = "insert" =>
           LET call == inserted'[Len(inserted')]
           IN  ~call.ok =>
                 /\ \/ ~contains(quadTree[Root].boundary, call.obj)
                    \/ /\ ~HasRoom(quadTree[Root])
                       /\ quadTree'[Root].divided
                       /\ \A i \in 1..4 :
                            LET c == quadTree'[Child(Root, i)]
                            IN  ~contains(c.boundary, call.obj) \/ ~HasRoom(c)
                 /\ call.obj \notin ObjectsOf(quadTree', DOMAIN quadTree')
                 /\ \A q \in Live(quadTree') :
                      quadTree'[q].objects
                        = IF q \in Live(quadTree) THEN quadTree[q].objects ELSE <<>>
                 /\ Stored(quadTree') = Stored(quadTree)
      /\ lastOp'.op = "retrieve" =>
           \A k \in DOMAIN inserted :
             ~inserted[k].ok => inserted[k].obj \notin Range(found'.result) ]_vars

\* an insert returned false for an entity the region contains, after it had
\* subdivided the full root, and a covering retrieve ran afterwards
C19_Witness ==
  /\ found.valid
  /\ found.query = CoveringQuery
  /\ found.result # <<>>
  /\ quadTree[Root].divided
  /\ \E k \in DOMAIN inserted : inserted[k].contained /\ ~inserted[k].ok

\* C20: checkCollisions probes every projectile of the snapshot exactly once,
\* in order, and invokes onHit at most once per (projectile, stored candidate)
\* pair, also when onHit removes the hit projectile from the snapshot's list.
C20_EveryProjectileProbedOnce ==
  (lastOp.op = "checkCollisions" /\ lastOp.enabled) =>
    /\ lastOp.probed = [j \in 1..Len(lastOp.snapshot.projectiles) |-> j]
    /\ \A k, l \in DOMAIN hits :
         (hits[k].index = hits[l].index /\ hits[k].target = hits[l].target) => k = l
\* the depth of the deepest node a traversal reaches
Depth(t) == CHOOSE d \in 0..Cardinality(DOMAIN t) :
              /\ \E q \in Live(t) : Len(q) = d
              /\ \A q \in Live(t) : Len(q) <= d

\* C21: every insert returns a boolean, also when more than capacity
\* zero-radius collidables share one point, and the depth the inserts reach is
\* bounded: a tree of depth d stores at least d times capacity collidables, so
\* the depth never exceeds the number of accepted inserts.
C21_InsertReturnsAndDepthBounded ==
  /\ \A k \in DOMAIN inserted : inserted[k].ok \in BOOLEAN
  /\ Depth(quadTree) * quadTree[Root].capacity <= Cardinality(Stored(quadTree))
  /\ Depth(quadTree) <= Cardinality({ k \in DOMAIN inserted : inserted[k].ok })

\* more than capacity zero-radius collidables at one point were all accepted
\* and the tree is at least two levels deep
C21_Witness ==
  /\ Depth(quadTree) >= 2
  /\ \E o \in Stored(quadTree) :
       /\ o.radius = 0
       /\ Cardinality({ k \in DOMAIN inserted :
                          /\ inserted[k].ok
                          /\ inserted[k].obj.x = o.x
                          /\ inserted[k].obj.y = o.y
                          /\ inserted[k].obj.radius = 0 })
            > quadTree[Root].capacity

\* C22: every target checkCollisions passes to onHit is the collidable of a
\* player: never the collidable update inserted for the probing projectile or
\* for another projectile.
C22_TargetsArePlayers ==
  (lastOp.op = "checkCollisions" /\ lastOp.enabled) =>
    \A k \in DOMAIN hits : hits[k].target.ref.kind = "player"

\* the collidables the claim has update insert for the snapshot: one per
\* player with the player's own radius, 12 when it has none, then one of radius
\* 2 per projectile
ExpectedCircles(gs) ==
  [i \in 1..Len(gs.players) |->
     Circle(gs.players[i].x, gs.players[i].y, PlayerRadius(gs.players[i]))]
    \o [j \in 1..Len(gs.projectiles) |->
          Circle(gs.projectiles[j].x, gs.projectiles[j].y, PROJECTILE_RADIUS)]

\* C23: on an enabled engine update calls insert once per player, with a
\* collidable at the player's coordinates and of the player's own radius (any
\* radius >= 0, 12 only when it has none), then once per projectile with a
\* collidable of radius 2.
C23_OneCollidablePerEntity ==
  (lastOp.op = "update" /\ lastOp.enabled) =>
    [k \in DOMAIN inserted |->
       Circle(inserted[k].obj.x, inserted[k].obj.y, inserted[k].obj.radius)]
      = ExpectedCircles(gameState[lastOp.m])

\* C24: in every reachable tree a subdivided node holds exactly capacity
\* entities, a node with fewer is a leaf, and no entity is stored below a node
\* that has free capacity.
C24_SubdividedNodesAreFull ==
  \A q \in Live(quadTree) :
    /\ quadTree[q].divided => Len(quadTree[q].objects) = quadTree[q].capacity
    /\ Len(quadTree[q].objects) < quadTree[q].capacity =>
         /\ ~quadTree[q].divided
         /\ ObjectsOf(quadTree, { c \in Live(quadTree) : Below(q, c) }) = {}

\* after a clear of a subdivided tree, a leaf below the root has free capacity
\* while the root is full and subdivided again
C24_Witness ==
  /\ epoch >= 1
  /\ quadTree[Root].divided
  /\ \E q \in Live(quadTree) :
       /\ Len(q) >= 1
       /\ quadTree[q].objects # <<>>
       /\ Len(quadTree[q].objects) < quadTree[q].capacity

\* C25: under any interleaving of concurrent joinQueue calls, no player is
\* placed in two matches (every player of the model enters the queue once).
C25_NoPlayerInTwoMatches ==
  \A k, l \in DOMAIN created :
    k # l => Range(created[k].players) \cap Range(created[l].players) = {}

====
